---- MODULE Spec2Model ----
(***************************************************************************)
(* Finance planner (src/src/app/page.tsx): the State Store (FinanceState   *)
(* and its mutators), the persistence effect (local storage always, the    *)
(* remote per-user document when signed in) and the auth-state callback    *)
(* (remote load, one-time migration, anonymous load), the values derived   *)
(* for display (projection, the two pie charts) and the numeric parser.    *)
(*                                                                         *)
(* Representation.  A JSON value read from a store is a function from the  *)
(* property names it has to their values; a property that is undefined is  *)
(* either absent from the domain or, in memory, present with the value     *)
(* Undefined.  An optional value (local-storage slot, remote document) is  *)
(* a set with no or one element.  Ids are naturals: crypto.randomUUID() is *)
(* a counter that never repeats, ForeignId is an id nobody generated.      *)
(* Numbers are integers; NaN, Infinity and the JSON null that stands for   *)
(* them in a stored document are three integers no input and no sum of the *)
(* model comes near, and every operator that meets them treats them as     *)
(* JavaScript does.                                                        *)
(***************************************************************************)
EXTENDS Integers, Sequences, FiniteSets, Bags, TLC

VARIABLES
  mounted,    \* the Home component is mounted (a page is open)
  state,      \* useState<FinanceState>           (page.tsx:108)
  stateIsDefault, \* state is the very object defaultState (React bails out on it)
  user,       \* useState<User | null>            (page.tsx:109)
  provider,   \* the auth provider's current identity (persists over reloads)
  emitted,    \* the provider has delivered its first auth state to this mount
  local,      \* localStorage[STORAGE_KEY]: {} or {document}
  remote,     \* users/<uid> documents: uid -> {} or {document}
  loads,      \* bag of getDoc calls whose continuation has not run yet
  writes,     \* bag of setDoc calls that have neither completed nor failed
  uuid,       \* number of ids crypto.randomUUID() has produced
  budget,     \* external events the run may still take
  synced,     \* history: the last localStorage.setItem of the effect succeeded
  last,       \* history: what the last step did (read by the properties)
  origin,     \* history: the handler that set the current State Store value
  saved,      \* history: the state an anonymous session had persisted when its page closed
  unread,     \* history: identities whose latest getDoc of this page rejected
  owners,     \* history: the identities whose data the State Store and the slot hold
  projectionMonths, \* useState<number>(12)              (page.tsx:184)
  view        \* what a derived view or the numeric parser last computed

vars == <<mounted, state, stateIsDefault, user, provider, emitted, local, remote,
          loads, writes, uuid, budget, synced, last, origin, saved, unread,
          owners, projectionMonths, view>>

----------------------------------------------------------------------------
(* Bounds of the model *)

\* user actions (mutator calls, sign-in, sign-out, closing the page) and
\* storage failures in one run
MaxEvents == 2

----------------------------------------------------------------------------
(* Constants of the program *)

Uids == {"A", "B"}
NoUser == "null"
Undefined == "undefined"
NoId == 0 - 1
ForeignId == 0
CurrentMonth == "2026-11"
DefaultMonths == 12
NoView == [fn |-> "none"]
NoOwners == [state |-> {}, local |-> {}]
\* a local-storage content that JSON.parse rejects
Corrupt == [corrupt |-> TRUE]
NaN == 0 - 900001
Infinity == 900002
Null == 0 - 900003

ScalarKeys == {"myMonthlyIncome", "spouseMonthlyIncome", "myTotalSavings", "spouseTotalSavings"}
ArrayKeys == {"entries", "savingsHoldings", "insurances"}
Fields == ScalarKeys \cup ArrayKeys
OptionalKeys == {"savingsType", "expenseType", "comment"}
NumberKeys == {"savings", "expenses", "amount", "limit"}

defaultState ==
  [myMonthlyIncome |-> 0, spouseMonthlyIncome |-> 0,
   myTotalSavings |-> 0, spouseTotalSavings |-> 0,
   entries |-> <<>>, savingsHoldings |-> <<>>, insurances |-> <<>>]

----------------------------------------------------------------------------
(* JavaScript helpers *)

Has(p, k) == k \in DOMAIN p
\* Number.isFinite(x)
IsFinite(x) == x \notin {NaN, Infinity, Null}
\* x ? ... : ... for a number (or null)
Truthy(x) == x \notin {0, NaN, Null}

ItemIds(seq) == {seq[i].id : i \in 1..Len(seq)}

\* xs.some((e) => e.id === id)
Some(seq, id) == \E i \in 1..Len(seq) : seq[i].id = id

\* xs.map((e) => (e.id === id ? next : e))
MapReplace(seq, id, next) == [i \in 1..Len(seq) |-> IF seq[i].id = id THEN next ELSE seq[i]]

\* (bug) the filter keeps the matching items: === for !==
RECURSIVE Filter_KeepsMatch(_, _)
Filter_KeepsMatch(seq, id) ==
  IF seq = <<>> THEN <<>>
  ELSE IF Head(seq).id = id THEN <<Head(seq)>> \o Filter_KeepsMatch(Tail(seq), id)
       ELSE Filter_KeepsMatch(Tail(seq), id)

\* xs.filter((e) => e.id !== id)
RECURSIVE Filter(_, _)
Filter(seq, id) ==
  IF seq = <<>> THEN <<>>
  ELSE IF Head(seq).id # id THEN <<Head(seq)>> \o Filter(Tail(seq), id)
       ELSE Filter(Tail(seq), id)

\* JSON.stringify of a number: NaN and Infinity are written as null
StringifyNumber(x) == IF IsFinite(x) THEN x ELSE Null

\* JSON.stringify of one array item: properties whose value is undefined are left out
StringifyItem(it) ==
  [k \in {j \in DOMAIN it : ~(j \in OptionalKeys /\ it[j] = Undefined)} |->
     IF k \in NumberKeys THEN StringifyNumber(it[k]) ELSE it[k]]

\* JSON.stringify(state), named by the JSON value the string denotes
Stringify(s) ==
  [k \in DOMAIN s |->
     IF k \in ArrayKeys THEN [i \in 1..Len(s[k]) |-> StringifyItem(s[k][i])]
     ELSE IF k \in ScalarKeys THEN StringifyNumber(s[k])
     ELSE s[k]]

\* { ...defaultState, ...data, entries: data.entries ?? [], savingsHoldings: ..., insurances: ... }
FromRemote(data) ==
  [k \in Fields \cup DOMAIN data |->
     IF k \in {"entries", "savingsHoldings", "insurances"}
     THEN (IF Has(data, k) THEN data[k] ELSE <<>>)
     ELSE (IF Has(data, k) THEN data[k] ELSE defaultState[k])]

\* { ...defaultState, ...parsed, entries: parsed.entries ?? [] }
FromLocal(parsed) ==
  [k \in Fields \cup DOMAIN parsed |->
     IF k = "entries"
     THEN (IF Has(parsed, k) THEN parsed[k] ELSE <<>>)
     ELSE (IF Has(parsed, k) THEN parsed[k] ELSE defaultState[k])]

\* (bug) a merge that keeps the fields the document already has
ApplyWrite_KeepsOld(doc, w) ==
  IF w.merge /\ doc # {}
  THEN LET old == CHOOSE d \in doc : TRUE
       IN {[k \in DOMAIN old \cup DOMAIN w.data |->
              IF Has(old, k) THEN old[k] ELSE w.data[k]]}
  ELSE {w.data}

\* setDoc(ref, data, { merge: true }) / setDoc(ref, data) applied to the stored document
ApplyWrite(doc, w) ==
  IF w.merge /\ doc # {}
  THEN LET old == CHOOSE d \in doc : TRUE
       IN {[k \in DOMAIN old \cup DOMAIN w.data |->
              IF Has(w.data, k) THEN w.data[k] ELSE old[k]]}
  ELSE {w.data}

----------------------------------------------------------------------------
(* State Store: the mutators as functions (previous state, arguments) -> next state *)

\* crypto.randomUUID(): the id produced after n earlier ones
randomUUID(n) == n + 1

\* (bug) the new state is built from defaultState instead of prev
upsertNumber_FromDefault(prev, key, value) == [defaultState EXCEPT ![key] = value]

\* upsertNumber(key, value)
upsertNumber(prev, key, value) == [prev EXCEPT ![key] = value]

\* (bug) an id is generated whenever the item is new to the caller
IdOrFresh_AlwaysFresh(partial, fresh) == fresh

\* const id = partial?.id ?? crypto.randomUUID()
IdOrFresh(partial, fresh) == IF Has(partial, "id") THEN partial.id ELSE fresh

\* the `next` entry addOrUpdateEntry builds from its argument
NextEntry(entry, fresh) ==
  [id |-> IdOrFresh(entry, fresh),
   month |-> IF Has(entry, "month") THEN entry.month ELSE CurrentMonth,
   savings |-> IF Has(entry, "savings") /\ IsFinite(entry.savings) THEN entry.savings ELSE 0,
   expenses |-> IF Has(entry, "expenses") /\ IsFinite(entry.expenses) THEN entry.expenses ELSE 0,
   savingsType |-> IF Has(entry, "savingsType") THEN entry.savingsType
                   ELSE IF Has(entry, "savings") /\ Truthy(entry.savings) THEN "MF" ELSE Undefined,
   expenseType |-> IF Has(entry, "expenseType") THEN entry.expenseType
                   ELSE IF Has(entry, "expenses") /\ Truthy(entry.expenses) THEN "Misc" ELSE Undefined,
   comment |-> IF Has(entry, "comment") THEN entry.comment ELSE ""]

\* the `next` holding addOrUpdateHolding builds from its argument
NextHolding(holding, fresh) ==
  [id |-> IdOrFresh(holding, fresh),
   type |-> IF Has(holding, "type") THEN holding.type ELSE "MF",
   amount |-> IF Has(holding, "amount") /\ IsFinite(holding.amount) THEN holding.amount ELSE 0]

\* the `next` item addOrUpdateInsurance builds from its argument
NextInsurance(item, fresh) ==
  [id |-> IdOrFresh(item, fresh),
   type |-> IF Has(item, "type") THEN item.type ELSE "Company Health",
   coveredPeople |-> IF Has(item, "coveredPeople") THEN item.coveredPeople ELSE "",
   limit |-> IF Has(item, "limit") /\ IsFinite(item.limit) THEN item.limit ELSE 0]

\* (bug) no look-up of the id: the item is always prepended
Upsert_AlwaysPrepends(seq, next) == <<next>> \o seq

\* (bug) a new item is appended instead of prepended
Upsert_Appends(seq, next) ==
  IF Some(seq, next.id) THEN MapReplace(seq, next.id, next) ELSE seq \o <<next>>

\* exists ? xs.map(replace) : [next, ...xs]
Upsert(seq, next) ==
  IF Some(seq, next.id) THEN MapReplace(seq, next.id, next) ELSE <<next>> \o seq

addOrUpdateEntry(prev, entry, fresh) ==
  [prev EXCEPT !.entries = Upsert(prev.entries, NextEntry(entry, fresh))]

removeEntry(prev, id) == [prev EXCEPT !.entries = Filter(prev.entries, id)]

addOrUpdateHolding(prev, holding, fresh) ==
  [prev EXCEPT !.savingsHoldings = Upsert(prev.savingsHoldings, NextHolding(holding, fresh))]

removeHolding(prev, id) == [prev EXCEPT !.savingsHoldings = Filter(prev.savingsHoldings, id)]

addOrUpdateInsurance(prev, item, fresh) ==
  [prev EXCEPT !.insurances = Upsert(prev.insurances, NextInsurance(item, fresh))]

removeInsurance(prev, id) == [prev EXCEPT !.insurances = Filter(prev.insurances, id)]

----------------------------------------------------------------------------
(* Persistence Adapter *)

The(opt) == CHOOSE x \in opt : TRUE

\* (bug) whatever the slot holds is taken as a parsed document
Parsed_AdoptsAny(raw) == raw

\* raw ? JSON.parse(raw) : nothing, inside try: the parsed value, or none
\* when the slot is empty or JSON.parse throws
Parsed(raw) == {d \in raw : d # Corrupt}

MutatorOps == {"upsertNumber", "addOrUpdateEntry", "removeEntry", "addOrUpdateHolding",
               "removeHolding", "addOrUpdateInsurance", "removeInsurance"}

\* the argument object with its id property set
WithId(partial, id) ==
  [k \in DOMAIN partial \cup {"id"} |-> IF k = "id" THEN id ELSE partial[k]]

PassedId(partial) == IF Has(partial, "id") THEN partial.id ELSE NoId

Did(op, id) == [op |-> op, id |-> id]
DidUpsert(op, partial) == [op |-> op, id |-> PassedId(partial), arg |-> partial]
DidSet(key, value) == [op |-> "upsertNumber", id |-> NoId, key |-> key, value |-> value]
From(op, uid) == [op |-> op, uid |-> uid]

\* (bug) the migration writes the empty state instead of what it read
MigrationWrite_Default(uid, parsed) == [uid |-> uid, data |-> defaultState, merge |-> FALSE]

\* await setDoc(ref, parsed): the document is replaced by what local storage held
MigrationWrite(uid, parsed) == [uid |-> uid, data |-> parsed, merge |-> FALSE]

\* setDoc(ref, state, { merge: true }) of save()
EffectWrite(u, s) == [uid |-> u, data |-> s, merge |-> TRUE]

\* (bug) local storage wins over an existing remote document
LoadedState_PrefersLocal(snap, raw) ==
  IF raw # {} THEN FromLocal(The(raw)) ELSE FromRemote(The(snap))

\* the value the callback hands to setState after getDoc: the document when
\* it exists, else what local storage holds
LoadedState(snap, raw) ==
  IF snap # {} THEN FromRemote(The(snap)) ELSE FromLocal(The(raw))

\* An external event (a user action or a storage failure) uses up the budget
Spend(n) == budget' = budget - n
Fault(ok) == IF ok THEN 0 ELSE 1
Oks(cost) == {TRUE} \cup (IF budget > cost THEN {FALSE} ELSE {})

\* (bug) the effect stores the state of the render before
Persist_Stale(s, u, ok, first) ==
  /\ local' = IF ok THEN {Stringify(state)} ELSE local
  /\ synced' = ok
  /\ writes' = writes (+) first (+)
        (IF u # NoUser THEN SetToBag({EffectWrite(u, s)}) ELSE EmptyBag)

\* (bug) save() is skipped when setItem threw
Persist_GivesUp(s, u, ok, first) ==
  /\ local' = IF ok THEN {Stringify(s)} ELSE local
  /\ synced' = ok
  /\ writes' = writes (+) first (+)
        (IF u # NoUser /\ ok THEN SetToBag({EffectWrite(u, s)}) ELSE EmptyBag)

\* The persistence effect (useEffect on [state]) of the render that shows the
\* new state object s with the identity u: setItem (ok: it did not throw),
\* then save(), which calls setDoc(ref(u), s, {merge: true}) when u is set.
\* `first` are the setDoc calls the handler itself made before the render.
Persist(s, u, ok, first) ==
  /\ local' = IF ok THEN {Stringify(s)} ELSE local
  /\ synced' = ok
  /\ writes' = writes (+) first (+)
        (IF u # NoUser THEN SetToBag({EffectWrite(u, s)}) ELSE EmptyBag)

\* history: the State Store now holds data of the identities `of`; the slot
\* holds the same when the effect ran and its setItem succeeded
Track(of, ran) ==
  owners' = [state |-> of, local |-> IF ran /\ synced' THEN of ELSE owners.local]

\* setState(s) with a new object: render, then the effect
SetState(s, u, ok, first) ==
  /\ state' = s
  /\ stateIsDefault' = FALSE
  /\ Persist(s, u, ok, first)

\* setState(defaultState): React bails out when state already is that object
SetDefaultState(u, ok) ==
  IF stateIsDefault
  THEN /\ ok
       /\ UNCHANGED <<state, stateIsDefault, local, synced, writes>>
  ELSE /\ state' = defaultState
       /\ stateIsDefault' = TRUE
       /\ Persist(defaultState, u, ok, EmptyBag)

\* (variant) the callback empties the State Store before it fetches
AuthCallback_ResetsState(u, ok) ==
  /\ user' = u
  /\ IF u # NoUser
     THEN /\ loads' = loads (+) SetToBag({[uid |-> u, read |-> FALSE, snap |-> {}]})
          /\ origin' = From("signedIn", u)
          /\ SetDefaultState(u, ok)
          /\ Track({}, ~stateIsDefault)
     ELSE /\ origin' = From("anonymous", NoUser)
          /\ IF Parsed(local) # {}
             THEN /\ SetState(FromLocal(The(Parsed(local))), NoUser, ok, EmptyBag)
                  /\ Track(owners.local, TRUE)
             ELSE /\ SetDefaultState(NoUser, ok)
                  /\ Track({}, ~stateIsDefault)
          /\ UNCHANGED loads

\* The onAuthStateChanged callback up to its first await
AuthCallback(u, ok) ==
  /\ user' = u
  /\ IF u # NoUser
     THEN /\ ok
          /\ loads' = loads (+) SetToBag({[uid |-> u, read |-> FALSE, snap |-> {}]})
          /\ UNCHANGED <<state, stateIsDefault, local, synced, writes, origin, owners>>
     ELSE /\ origin' = From("anonymous", NoUser)
          /\ IF Parsed(local) # {}
             THEN /\ SetState(FromLocal(The(Parsed(local))), NoUser, ok, EmptyBag)
                  /\ Track(owners.local, TRUE)
             ELSE /\ SetDefaultState(NoUser, ok)
                  /\ Track({}, ~stateIsDefault)
          /\ UNCHANGED loads

\* Home mounts: useState initial values, both effects run; the persistence
\* effect of the first render writes defaultState with user = null
Mount ==
  /\ ~mounted
  /\ mounted' = TRUE
  /\ state' = defaultState
  /\ stateIsDefault' = TRUE
  /\ user' = NoUser
  /\ emitted' = FALSE
  /\ \E ok \in Oks(0) : Persist(defaultState, NoUser, ok, EmptyBag) /\ Spend(Fault(ok))
  /\ Track({}, TRUE)
  /\ last' = Did("mount", NoId)
  /\ origin' = From("mount", NoUser)
  /\ unread' = {}
  /\ projectionMonths' = DefaultMonths
  /\ view' = NoView
  /\ UNCHANGED <<provider, remote, loads, uuid, saved>>

\* The page is closed or reloaded: the component and its pending callbacks are gone
Unload ==
  /\ mounted
  /\ budget > 0
  /\ Spend(1)
  /\ mounted' = FALSE
  /\ loads' = EmptyBag
  /\ saved' = IF /\ emitted /\ user = NoUser /\ provider = NoUser /\ loads = EmptyBag
                 /\ synced /\ last.op \in MutatorOps
              THEN {state} ELSE {}
  /\ last' = Did("unload", NoId)
  /\ unread' = {}
  /\ UNCHANGED <<state, stateIsDefault, user, provider, emitted, local, remote,
                 writes, uuid, synced, origin, owners, projectionMonths, view>>

\* The provider delivers the auth state it has to the new subscription
AuthInit ==
  /\ mounted /\ ~emitted
  /\ emitted' = TRUE
  /\ \E ok \in Oks(0) : AuthCallback(provider, ok) /\ Spend(Fault(ok))
  /\ last' = Did("authInit", NoId)
  /\ UNCHANGED <<mounted, provider, remote, uuid, saved, unread, projectionMonths, view>>

\* signInWithPopup succeeds as u (Header.tsx:29)
SignIn(u) ==
  /\ mounted /\ emitted /\ provider = NoUser
  /\ budget > 0
  /\ provider' = u
  /\ \E ok \in Oks(1) : AuthCallback(u, ok) /\ Spend(1 + Fault(ok))
  /\ last' = Did("signIn", NoId)
  /\ UNCHANGED <<mounted, emitted, remote, uuid, saved, unread, projectionMonths, view>>

\* signOut (Header.tsx:21)
SignOut ==
  /\ mounted /\ emitted /\ provider # NoUser
  /\ budget > 0
  /\ provider' = NoUser
  /\ \E ok \in Oks(1) : AuthCallback(NoUser, ok) /\ Spend(1 + Fault(ok))
  /\ last' = Did("signOut", NoId)
  /\ UNCHANGED <<mounted, emitted, remote, uuid, saved, unread, projectionMonths, view>>

\* The store answers a getDoc: the snapshot is the document as it is now
LoadRead(l) ==
  /\ BagIn(l, loads) /\ ~l.read
  /\ loads' = (loads (-) SetToBag({l}))
                (+) SetToBag({[l EXCEPT !.read = TRUE, !.snap = remote[l.uid]]})
  /\ last' = Did("loadRead", NoId)
  /\ UNCHANGED <<mounted, state, stateIsDefault, user, provider, emitted, local, remote,
                 writes, uuid, budget, synced, origin, saved, unread, owners, projectionMonths, view>>

\* The getDoc rejects: the callback's promise rejects and nothing handles it
LoadFail(l) ==
  /\ BagIn(l, loads) /\ ~l.read
  /\ budget > 0
  /\ Spend(1)
  /\ loads' = loads (-) SetToBag({l})
  /\ unread' = unread \cup {l.uid}
  /\ last' = Did("loadFail", NoId)
  /\ UNCHANGED <<mounted, state, stateIsDefault, user, provider, emitted, local, remote,
                 writes, uuid, synced, origin, saved, owners, projectionMonths, view>>

\* The callback resumes after `await getDoc(ref)`
LoadDone(l) ==
  /\ BagIn(l, loads) /\ l.read
  /\ loads' = loads (-) SetToBag({l})
  /\ \E ok \in Oks(0) :
       /\ Spend(Fault(ok))
       /\ IF l.snap # {}
          THEN /\ SetState(LoadedState(l.snap, Parsed(local)), user, ok, EmptyBag)
               /\ Track({l.uid}, TRUE)
               /\ last' = Did("loadExists", NoId)
               /\ origin' = From("loadExists", l.uid)
          ELSE IF Parsed(local) # {}
          THEN /\ SetState(LoadedState(l.snap, Parsed(local)), user, ok,
                           SetToBag({MigrationWrite(l.uid, The(Parsed(local)))}))
               /\ Track(owners.local, TRUE)
               /\ last' = Did("loadMigrate", NoId)
               /\ origin' = From("loadMigrate", l.uid)
          ELSE /\ ok
               /\ UNCHANGED <<state, stateIsDefault, local, synced, writes, origin, owners>>
               /\ last' = Did("loadNothing", NoId)
  /\ unread' = unread \ {l.uid}
  /\ UNCHANGED <<mounted, user, provider, emitted, remote, uuid, saved, projectionMonths, view>>

\* A setDoc reaches the store
WriteDone(w) ==
  /\ BagIn(w, writes)
  /\ writes' = writes (-) SetToBag({w})
  /\ remote' = [remote EXCEPT ![w.uid] = ApplyWrite(@, w)]
  /\ last' = Did("writeDone", NoId)
  /\ UNCHANGED <<mounted, state, stateIsDefault, user, provider, emitted, local,
                 loads, uuid, budget, synced, origin, saved, unread, owners, projectionMonths, view>>

\* A setDoc rejects; the rejection is caught and dropped
WriteFail(w) ==
  /\ BagIn(w, writes)
  /\ budget > 0
  /\ Spend(1)
  /\ writes' = writes (-) SetToBag({w})
  /\ last' = Did("writeFail", NoId)
  /\ UNCHANGED <<mounted, state, stateIsDefault, user, provider, emitted, local, remote,
                 loads, uuid, synced, origin, saved, unread, owners, projectionMonths, view>>

----------------------------------------------------------------------------
(* The mutators as handlers: setState(updater), render, persistence effect *)

Mutate(s, did, usedUUID) ==
  /\ mounted
  /\ budget > 0
  /\ \E ok \in Oks(1) : SetState(s, user, ok, EmptyBag) /\ Spend(1 + Fault(ok))
  /\ uuid' = IF usedUUID THEN uuid + 1 ELSE uuid
  /\ last' = did
  /\ origin' = From(did.op, user)
  /\ Track(owners.state \cup (IF user = NoUser THEN {} ELSE {user}), TRUE)
  /\ UNCHANGED <<mounted, user, provider, emitted, remote, loads, saved, unread,
                 projectionMonths, view>>

UpsertNumber(key, value) ==
  Mutate(upsertNumber(state, key, value), DidSet(key, value), FALSE)

AddOrUpdateEntry(entry) ==
  Mutate(addOrUpdateEntry(state, entry, randomUUID(uuid)), DidUpsert("addOrUpdateEntry", entry),
         ~Has(entry, "id"))

RemoveEntry(id) ==
  Mutate(removeEntry(state, id), Did("removeEntry", id), FALSE)

AddOrUpdateHolding(holding) ==
  Mutate(addOrUpdateHolding(state, holding, randomUUID(uuid)), DidUpsert("addOrUpdateHolding", holding),
         ~Has(holding, "id"))

RemoveHolding(id) ==
  Mutate(removeHolding(state, id), Did("removeHolding", id), FALSE)

AddOrUpdateInsurance(item) ==
  Mutate(addOrUpdateInsurance(state, item, randomUUID(uuid)), DidUpsert("addOrUpdateInsurance", item),
         ~Has(item, "id"))

RemoveInsurance(id) ==
  Mutate(removeInsurance(state, id), Did("removeInsurance", id), FALSE)

----------------------------------------------------------------------------
(* Inputs *)

\* what the forms of the page submit: every field filled in, the id of the
\* item being edited or none
ScalarInputs == {5}
EntryForms ==
  {[month |-> "2026-10", savings |-> 3, expenses |-> 1, savingsType |-> "MF",
    expenseType |-> "Misc", comment |-> ""],
   [month |-> "2026-11", savings |-> 0, expenses |-> 4, savingsType |-> "Gold",
    expenseType |-> "Rent", comment |-> "x"]}
HoldingForms == {[type |-> "Gold", amount |-> 2]}
InsuranceForms == {[type |-> "Term", coveredPeople |-> "me", limit |-> 9]}

\* a form submits without id (create) or with the id of a listed item (edit)
Submissions(forms, seq) == forms \cup {WithId(f, id) : f \in forms, id \in ItemIds(seq)}

\* documents an earlier session of the application left in the stores
StoredEntry ==
  [id |-> 50, month |-> "2026-09", savings |-> 7, expenses |-> 2, savingsType |-> "FD",
   expenseType |-> "Rent", comment |-> ""]
StoredDoc ==
  [myMonthlyIncome |-> 9, spouseMonthlyIncome |-> 0, myTotalSavings |-> 0,
   spouseTotalSavings |-> 0, entries |-> <<StoredEntry>>,
   savingsHoldings |-> <<[id |-> 51, type |-> "Cash", amount |-> 6]>>, insurances |-> <<>>]
\* a document of an earlier schema: no sequences
OldDoc ==
  [myMonthlyIncome |-> 4, spouseMonthlyIncome |-> 0, myTotalSavings |-> 0,
   spouseTotalSavings |-> 0]

----------------------------------------------------------------------------
(* The application: sessions, sign-in and sign-out, loads and writes *)

Init ==
  /\ mounted = FALSE
  /\ state = defaultState
  /\ stateIsDefault = TRUE
  /\ user = NoUser
  /\ provider \in {NoUser, "A"}
  /\ emitted = FALSE
  /\ local \in {{}, {StoredDoc}, {Corrupt}}
  /\ remote \in {[u \in Uids |-> IF u = "A" THEN d ELSE {}] : d \in {{}, {OldDoc}}}
  /\ loads = EmptyBag
  /\ writes = EmptyBag
  /\ uuid = 0
  /\ budget = MaxEvents
  /\ synced = FALSE
  /\ last = Did("init", NoId)
  /\ origin = From("init", NoUser)
  /\ saved = {}
  /\ unread = {}
  /\ owners = NoOwners
  /\ projectionMonths = DefaultMonths
  /\ view = NoView

Next ==
  \/ Mount
  \/ Unload
  \/ AuthInit
  \/ \E u \in Uids : SignIn(u)
  \/ SignOut
  \/ \E l \in BagToSet(loads) : LoadRead(l)
  \/ \E l \in BagToSet(loads) : LoadFail(l)
  \/ \E l \in BagToSet(loads) : LoadDone(l)
  \/ \E w \in BagToSet(writes) : WriteDone(w)
  \/ \E w \in BagToSet(writes) : WriteFail(w)
  \/ \E k \in ScalarKeys, v \in ScalarInputs : UpsertNumber(k, v)
  \/ \E e \in Submissions(EntryForms, state.entries) : AddOrUpdateEntry(e)
  \/ \E id \in ItemIds(state.entries) : RemoveEntry(id)
  \/ \E h \in Submissions(HoldingForms, state.savingsHoldings) : AddOrUpdateHolding(h)
  \/ \E id \in ItemIds(state.savingsHoldings) : RemoveHolding(id)
  \/ \E i \in Submissions(InsuranceForms, state.insurances) : AddOrUpdateInsurance(i)
  \/ \E id \in ItemIds(state.insurances) : RemoveInsurance(id)

Spec == Init /\ [][Next]_vars

----------------------------------------------------------------------------
(* The State Store alone: an anonymous session whose mutators are called   *)
(* with any argument their types admit (properties left out, ids that      *)
(* match nothing)                                                          *)

\* mutator calls and storage failures in one run of the State Store
MaxOps == 3

NoArg == <<>>
ScalarArgs == ScalarInputs \cup {NaN}
EntryArgs ==
  {NoArg, [savings |-> 3],
   [month |-> "2026-10", savings |-> 0, expenses |-> 4, expenseType |-> "Rent"],
   [savings |-> 0 - 2, expenses |-> NaN], [savings |-> Infinity, expenses |-> 0 - 1]}
HoldingArgs == {NoArg, [type |-> "Gold", amount |-> 2], [amount |-> NaN]}
InsuranceArgs == {NoArg, [type |-> "Term", limit |-> 9], [limit |-> Infinity]}

\* an id argument: the id of an item of the sequence or one that matches nothing
IdArgs(seq) == ItemIds(seq) \cup {ForeignId}

Calls(args, seq) == args \cup {WithId(a, id) : a \in args, id \in IdArgs(seq)}

InitStore ==
  /\ mounted = FALSE
  /\ state = defaultState
  /\ stateIsDefault = TRUE
  /\ user = NoUser
  /\ provider = NoUser
  /\ emitted = FALSE
  /\ local \in {{}, {StoredDoc}}
  /\ remote = [u \in Uids |-> {}]
  /\ loads = EmptyBag
  /\ writes = EmptyBag
  /\ uuid = 0
  /\ budget = MaxOps
  /\ synced = FALSE
  /\ last = Did("init", NoId)
  /\ origin = From("init", NoUser)
  /\ saved = {}
  /\ unread = {}
  /\ owners = NoOwners
  /\ projectionMonths = DefaultMonths
  /\ view = NoView

NextStore ==
  \/ Mount
  \/ AuthInit
  \/ \E k \in ScalarKeys, v \in ScalarArgs : UpsertNumber(k, v)
  \/ \E e \in Calls(EntryArgs, state.entries) : AddOrUpdateEntry(e)
  \/ \E id \in IdArgs(state.entries) : RemoveEntry(id)
  \/ \E h \in Calls(HoldingArgs, state.savingsHoldings) : AddOrUpdateHolding(h)
  \/ \E id \in IdArgs(state.savingsHoldings) : RemoveHolding(id)
  \/ \E i \in Calls(InsuranceArgs, state.insurances) : AddOrUpdateInsurance(i)
  \/ \E id \in IdArgs(state.insurances) : RemoveInsurance(id)

SpecStore == InitStore /\ [][NextStore]_vars

----------------------------------------------------------------------------
(* Derived views: the values the page computes from the State Store *)

\* a.b ?? fallback
OrElse(a, k, fallback) == IF Has(a, k) /\ a[k] # Undefined THEN a[k] ELSE fallback

\* seq.reduce((sum, e) => sum + e[k], 0)
RECURSIVE Reduce(_, _, _)
Reduce(seq, k, sum) == IF seq = <<>> THEN sum ELSE Reduce(Tail(seq), k, sum + Head(seq)[k])

combinedTotalSavings(s) == s.myTotalSavings + s.spouseTotalSavings
totalPlannedMonthlySavings(s) == Reduce(s.entries, "savings", 0)

\* (bug) the projection leaves out what is saved already
projectedSavingsOnly_SkipsCurrent(s, months) == months * totalPlannedMonthlySavings(s)

\* combinedTotalSavings + projectionMonths * totalPlannedMonthlySavings
projectedSavingsOnly(s, months) ==
  combinedTotalSavings(s) + months * totalPlannedMonthlySavings(s)

\* Math.max(1, Math.min(360, Number(e.target.value) || 1)) for a number typed in
ClampMonths(n) ==
  LET m == IF Truthy(n) THEN n ELSE 1
      lo == IF m < 360 THEN m ELSE 360
  IN IF lo > 1 THEN lo ELSE 1

\* A Map, held as the sequence of its entries in insertion order:
\* map.set(key, (map.get(key) ?? 0) + v)
MapAdd(map, key, v) ==
  IF \E i \in 1..Len(map) : map[i].name = key
  THEN [i \in 1..Len(map) |->
          IF map[i].name = key THEN [name |-> key, value |-> map[i].value + v] ELSE map[i]]
  ELSE Append(map, [name |-> key, value |-> v])

\* (bug) entries without expenses are grouped too
RECURSIVE ExpensesMap_KeepsZero(_, _)
ExpensesMap_KeepsZero(entries, map) ==
  IF entries = <<>> THEN map
  ELSE LET e == Head(entries)
       IN ExpensesMap_KeepsZero(Tail(entries),
            MapAdd(map, OrElse(e, "expenseType", "Misc"), e.expenses))

\* for (const e of entries) if (e.expenses > 0) map.set(e.expenseType ?? "Misc", ...)
RECURSIVE ExpensesMap(_, _)
ExpensesMap(entries, map) ==
  IF entries = <<>> THEN map
  ELSE LET e == Head(entries)
       IN ExpensesMap(Tail(entries),
            IF e.expenses > 0 THEN MapAdd(map, OrElse(e, "expenseType", "Misc"), e.expenses)
            ELSE map)

\* the labels and values ExpensesPie draws
ExpensesPie(entries) == ExpensesMap(entries, <<>>)

\* for (const h of holdings) map.set(h.type, (map.get(h.type) ?? 0) + h.amount)
RECURSIVE HoldingsMap(_, _)
HoldingsMap(holdings, map) ==
  IF holdings = <<>> THEN map
  ELSE HoldingsMap(Tail(holdings), MapAdd(map, Head(holdings).type, Head(holdings).amount))

\* the labels and values HoldingsPie draws
HoldingsPie(holdings) == HoldingsMap(holdings, <<>>)

\* map.get(key) ?? fallback
MapGet(map, key, fallback) ==
  IF \E i \in 1..Len(map) : map[i].name = key
  THEN map[CHOOSE i \in 1..Len(map) : map[i].name = key].value
  ELSE fallback

\* Array.from(map.keys())
MapKeys(map) == [i \in 1..Len(map) |-> map[i].name]

\* new Set(seq), held as the sequence of its elements in insertion order
RECURSIVE SetFrom(_, _)
SetFrom(seq, set) ==
  IF seq = <<>> THEN set
  ELSE SetFrom(Tail(seq),
               IF \E i \in 1..Len(set) : set[i] = Head(seq) THEN set
               ELSE Append(set, Head(seq)))

\* (bug) entries that save nothing are grouped too
RECURSIVE SavingsMap_KeepsZero(_, _)
SavingsMap_KeepsZero(entries, map) ==
  IF entries = <<>> THEN map
  ELSE LET e == Head(entries)
       IN SavingsMap_KeepsZero(Tail(entries),
            MapAdd(map, OrElse(e, "savingsType", "Unspecified"), e.savings))

\* for (const e of monthlyEntries) if (e.savings > 0)
\*   map.set(e.savingsType ?? "Unspecified", ...)
RECURSIVE SavingsMap(_, _)
SavingsMap(entries, map) ==
  IF entries = <<>> THEN map
  ELSE LET e == Head(entries)
       IN SavingsMap(Tail(entries),
            IF e.savings > 0
            THEN MapAdd(map, OrElse(e, "savingsType", "Unspecified"), e.savings)
            ELSE map)

\* one step of the stable sort by (a, b) => b.projected - a.projected: the
\* row goes behind every row whose projected is not smaller than its own
InsertRow(sorted, row) ==
  LET ahead == Cardinality({i \in 1..Len(sorted) : sorted[i].projected >= row.projected})
  IN SubSeq(sorted, 1, ahead) \o <<row>> \o SubSeq(sorted, ahead + 1, Len(sorted))

RECURSIVE SortRows(_, _)
SortRows(rows, sorted) ==
  IF rows = <<>> THEN sorted ELSE SortRows(Tail(rows), InsertRow(sorted, Head(rows)))

\* the rows ProjectionByType shows
ProjectionByType(months, currentHoldings, monthlyEntries) ==
  LET currentByType == HoldingsMap(currentHoldings, <<>>)
      monthlySavingsByType == SavingsMap(monthlyEntries, <<>>)
      types == SetFrom(MapKeys(currentByType) \o MapKeys(monthlySavingsByType), <<>>)
      rows == [i \in 1..Len(types) |->
                 LET current == MapGet(currentByType, types[i], 0)
                     monthly == MapGet(monthlySavingsByType, types[i], 0)
                 IN [type |-> types[i], current |-> current, monthly |-> monthly,
                     projected |-> current + months * monthly]]
  IN SortRows(rows, <<>>)

\* (bug) the loop starts at the first month: for (let i = 1; ...)
RECURSIVE SavingsPoints_FromOne(_, _, _, _)
SavingsPoints_FromOne(i, months, s, monthlySavings) ==
  IF i + 1 <= months
  THEN <<s + (i + 1) * monthlySavings>> \o SavingsPoints_FromOne(i + 1, months, s, monthlySavings)
  ELSE <<>>

\* for (let i = i0; i <= months; i++) savingsPoints.push(s + i * monthlySavings)
RECURSIVE SavingsPoints(_, _, _, _)
SavingsPoints(i, months, s, monthlySavings) ==
  IF i <= months
  THEN <<s + i * monthlySavings>> \o SavingsPoints(i + 1, months, s, monthlySavings)
  ELSE <<>>

\* the series ProjectionLineChart draws
ProjectionLineChart(months, starting, monthlySavings) ==
  SavingsPoints(0, months, starting, monthlySavings)

\* A render computes one of the derived values
Show(fn, out) ==
  /\ mounted
  /\ view' = [fn |-> fn, out |-> out]
  /\ UNCHANGED <<mounted, state, stateIsDefault, user, provider, emitted, local, remote,
                 loads, writes, uuid, budget, synced, last, origin, saved, unread, owners,
                 projectionMonths>>

ShowProjectedSavingsOnly ==
  Show("projectedSavingsOnly", projectedSavingsOnly(state, projectionMonths))
ShowExpensesPie == Show("ExpensesPie", ExpensesPie(state.entries))
ShowHoldingsPie == Show("HoldingsPie", HoldingsPie(state.savingsHoldings))
ShowProjectionByType ==
  Show("ProjectionByType",
       ProjectionByType(projectionMonths, state.savingsHoldings, state.entries))
ShowProjectionLineChart ==
  Show("ProjectionLineChart",
       ProjectionLineChart(projectionMonths, combinedTotalSavings(state),
                           totalPlannedMonthlySavings(state)))

\* The months input changes: setProjectionMonths(clamped value), a new render
SetProjectionMonths(n) ==
  /\ mounted
  /\ projectionMonths' = ClampMonths(n)
  /\ view' = NoView
  /\ UNCHANGED <<mounted, state, stateIsDefault, user, provider, emitted, local, remote,
                 loads, writes, uuid, budget, synced, last, origin, saved, unread, owners>>

\* longest sequence of entries and of holdings the views are computed for
MaxItems == 2

MonthInputs == {0, 6}
ViewScalars == {0, 60000}
\* entries as the State Store holds them, but for the id
ViewEntries ==
  {[month |-> "2026-10", savings |-> 10000, expenses |-> 0, savingsType |-> "MF",
    expenseType |-> "Rent", comment |-> ""],
   [month |-> "2026-10", savings |-> 0, expenses |-> 300, savingsType |-> Undefined,
    expenseType |-> "Rent", comment |-> ""],
   [month |-> "2026-11", savings |-> 2000, expenses |-> 500, savingsType |-> "Gold",
    comment |-> "x"],
   [month |-> "2026-11", savings |-> 0, expenses |-> 0, savingsType |-> Undefined,
    expenseType |-> Undefined, comment |-> ""],
   [month |-> "2026-12", savings |-> 0, expenses |-> 0, savingsType |-> "FD",
    expenseType |-> Undefined, comment |-> ""],
   [month |-> "2026-12", savings |-> 700, expenses |-> 0, expenseType |-> "Rent",
    comment |-> ""]}
ViewHoldings ==
  {[type |-> "Gold", amount |-> 0], [type |-> "Gold", amount |-> 2],
   [type |-> "Cash", amount |-> 6]}

\* the sequences of at most MaxItems items of `shapes`, ids counted from `base`
Listed(shapes, base) ==
  UNION {{[i \in 1..n |-> WithId(f[i], base + i)] : f \in [1..n -> shapes]} : n \in 0..MaxItems}

ViewStates ==
  {[myMonthlyIncome |-> 0, spouseMonthlyIncome |-> 0, myTotalSavings |-> a,
    spouseTotalSavings |-> b, entries |-> es, savingsHoldings |-> hs, insurances |-> <<>>] :
     a \in ViewScalars, b \in {0, 40000}, es \in Listed(ViewEntries, 0),
     hs \in Listed(ViewHoldings, MaxItems)}

\* an anonymous session that holds a FinanceState and has persisted it
InitViews ==
  /\ mounted = TRUE
  /\ state \in ViewStates
  /\ stateIsDefault = FALSE
  /\ user = NoUser
  /\ provider = NoUser
  /\ emitted = TRUE
  /\ local = {Stringify(state)}
  /\ remote = [u \in Uids |-> {}]
  /\ loads = EmptyBag
  /\ writes = EmptyBag
  /\ uuid = 2 * MaxItems
  /\ budget = 0
  /\ synced = TRUE
  /\ last = Did("init", NoId)
  /\ origin = From("anonymous", NoUser)
  /\ saved = {}
  /\ unread = {}
  /\ owners = NoOwners
  /\ projectionMonths = DefaultMonths
  /\ view = NoView

NextViews ==
  \/ \E n \in MonthInputs : SetProjectionMonths(n)
  \/ ShowProjectedSavingsOnly
  \/ ShowExpensesPie
  \/ ShowHoldingsPie
  \/ ShowProjectionByType
  \/ ShowProjectionLineChart

SpecViews == InitViews /\ [][NextViews]_vars

----------------------------------------------------------------------------
(* The numeric parser.  A string is the sequence of its characters; a      *)
(* number read from a numeral is the pair of its digits as an integer m    *)
(* and the count e of fraction digits (the value m / 10^e), and the m of   *)
(* NaN is NaN.                                                             *)

Digits == <<"0", "1", "2", "3", "4", "5", "6", "7", "8", "9">>
IsDigit(c) == \E i \in 1..Len(Digits) : Digits[i] = c
DigitValue(c) == (CHOOSE i \in 1..Len(Digits) : Digits[i] = c) - 1

Dec(m, e) == [m |-> m, e |-> e]
NotANumber == Dec(NaN, 0)

\* (bug) the comma is kept: /[^0-9.,\-]/g
RECURSIVE Strip_KeepsComma(_)
Strip_KeepsComma(input) ==
  IF input = <<>> THEN <<>>
  ELSE IF IsDigit(Head(input)) \/ Head(input) \in {".", "-", ","}
       THEN <<Head(input)>> \o Strip_KeepsComma(Tail(input))
       ELSE Strip_KeepsComma(Tail(input))

\* input.replace(/[^0-9.\-]/g, "")
RECURSIVE Strip(_)
Strip(input) ==
  IF input = <<>> THEN <<>>
  ELSE IF IsDigit(Head(input)) \/ Head(input) \in {".", "-"}
       THEN <<Head(input)>> \o Strip(Tail(input))
       ELSE Strip(Tail(input))

\* reads the digits at the front of acc.rest: m takes them up, n counts them
RECURSIVE ReadDigits(_)
ReadDigits(acc) ==
  IF acc.rest # <<>> /\ IsDigit(Head(acc.rest))
  THEN ReadDigits([m |-> acc.m * 10 + DigitValue(Head(acc.rest)), n |-> acc.n + 1,
                   rest |-> Tail(acc.rest)])
  ELSE acc

\* Number(str) for a string of digits, "." and "-": the empty string is 0; a
\* numeral is an optional sign, digits, and optionally a point and digits,
\* with a digit somewhere; everything else is NaN
ToNumber(str) ==
  IF str = <<>> THEN Dec(0, 0)
  ELSE LET neg == Head(str) = "-"
           int == ReadDigits([m |-> 0, n |-> 0, rest |-> IF neg THEN Tail(str) ELSE str])
           point == int.rest # <<>> /\ Head(int.rest) = "."
           frac == IF point THEN ReadDigits([m |-> int.m, n |-> 0, rest |-> Tail(int.rest)])
                   ELSE [m |-> int.m, n |-> 0, rest |-> int.rest]
       IN IF frac.rest # <<>> \/ int.n + frac.n = 0 THEN NotANumber
          ELSE Dec(IF neg THEN 0 - frac.m ELSE frac.m, frac.n)

\* (bug) the result of Number is returned unchecked
parseNumber_Unchecked(input) == ToNumber(Strip(input))

\* parseNumber(input)
parseNumber(input) ==
  LET n == ToNumber(Strip(input)) IN IF IsFinite(n.m) THEN n ELSE Dec(0, 0)

\* longest string typed character by character
MaxLen == 3

TypedChars == {"1", "0", ".", "-", ",", "a"}
PastedTexts ==
  {<<"a", "b", "c">>, <<"1", "-", "2">>, <<"1", ".", "2", ".", "3">>,
   <<"1", ",", "2", "3", "4", ".", "5", "0", " ", "I", "N", "R">>,
   <<"-", ".", "5">>, <<"7", ".">>}

\* A character is typed into a number field
Type(c) ==
  /\ mounted
  /\ view.fn \in {"typed", "parseNumber"}
  /\ Len(view.text) < MaxLen
  /\ view' = [fn |-> "typed", text |-> Append(view.text, c)]
  /\ UNCHANGED <<mounted, state, stateIsDefault, user, provider, emitted, local, remote,
                 loads, writes, uuid, budget, synced, last, origin, saved, unread, owners,
                 projectionMonths>>

\* The handler of the field reads its text with parseNumber
ParseNumber ==
  /\ mounted
  /\ view.fn = "typed"
  /\ view' = [fn |-> "parseNumber", text |-> view.text, out |-> parseNumber(view.text)]
  /\ UNCHANGED <<mounted, state, stateIsDefault, user, provider, emitted, local, remote,
                 loads, writes, uuid, budget, synced, last, origin, saved, unread, owners,
                 projectionMonths>>

\* a page with a number field that is empty or holds a pasted text
InitParse ==
  /\ mounted = TRUE
  /\ state = defaultState
  /\ stateIsDefault = TRUE
  /\ user = NoUser
  /\ provider = NoUser
  /\ emitted = TRUE
  /\ local = {Stringify(defaultState)}
  /\ remote = [u \in Uids |-> {}]
  /\ loads = EmptyBag
  /\ writes = EmptyBag
  /\ uuid = 0
  /\ budget = 0
  /\ synced = TRUE
  /\ last = Did("init", NoId)
  /\ origin = From("anonymous", NoUser)
  /\ saved = {}
  /\ unread = {}
  /\ owners = NoOwners
  /\ projectionMonths = DefaultMonths
  /\ view \in {[fn |-> "typed", text |-> s] : s \in {<<>>} \cup PastedTexts}

NextParse ==
  \/ \E c \in TypedChars : Type(c)
  \/ ParseNumber

SpecParse == InitParse /\ [][NextParse]_vars

----------------------------------------------------------------------------
(* Properties of the State Store *)

IdsOf(seq) == [i \in 1..Len(seq) |-> seq[i].id]

\* the ids of idseq that lie in S, in their order
IdsWithin(idseq, S) == SelectSeq(idseq, LAMBDA x : x \in S)

UpsertTargets ==
  {<<"addOrUpdateEntry", "entries">>, <<"addOrUpdateHolding", "savingsHoldings">>,
   <<"addOrUpdateInsurance", "insurances">>}
RemoveTargets ==
  {<<"removeEntry", "entries">>, <<"removeHolding", "savingsHoldings">>,
   <<"removeInsurance", "insurances">>}

\* a step of the upsert `op` on the sequence `key`: called without an id it
\* puts an item with an id no item had at the front and keeps the old items
\* behind it; called with the id of an item it keeps the length and changes
\* only the positions that hold that id, which still hold it
UpsertStep(op, key) ==
  last'.op = op =>
    LET old == state[key]
        new == state'[key]
    IN IF last'.id = NoId
       THEN /\ Len(new) = Len(old) + 1
            /\ new[1].id \notin ItemIds(old)
            /\ Tail(new) = old
       ELSE last'.id \in ItemIds(old) =>
            /\ Len(new) = Len(old)
            /\ \A i \in 1..Len(old) :
                 IF old[i].id = last'.id THEN new[i].id = last'.id ELSE new[i] = old[i]

\* C7: update-or-prepend. In each of the three sequences an upsert without an
\* id prepends an item with a fresh id (length + 1); an upsert with the id of
\* an existing item replaces it in place (length and all other items unchanged).
C7_UpdateOrPrepend == [][\A t \in UpsertTargets : UpsertStep(t[1], t[2])]_vars

\* C7 witness: an entry was just replaced in place at the second position,
\* behind an entry that was prepended under a generated id
C7_Witness ==
  /\ last.op = "addOrUpdateEntry"
  /\ last.id # NoId
  /\ Len(state.entries) = 2
  /\ state.entries[2].id = last.id
  /\ state.entries[1].id = randomUUID(uuid - 1)
  /\ uuid >= 1

\* a step of addOrUpdateEntry whose id argument matches no entry
UnmatchedEntryStep ==
  /\ last'.op = "addOrUpdateEntry"
  /\ last'.id # NoId
  /\ last'.id \notin ItemIds(state.entries)

\* C8 as stated: an upsertEntry whose id matches no entry stores the new entry
\* under a freshly generated id, not under the id that was passed in.
C8_Original == [][UnmatchedEntryStep => state'.entries[1].id # last'.id]_vars

\* C8 amended: an upsertEntry whose id matches no entry prepends the new entry
\* under the id that was passed in, and generates no id.
C8_KeepsPassedId ==
  [][UnmatchedEntryStep =>
       /\ state'.entries[1].id = last'.id
       /\ Tail(state'.entries) = state.entries
       /\ uuid' = uuid]_vars

\* C8 witness: the first call of a session passed an id to addOrUpdateEntry
\* while there was no entry, and the entry stored carries that id
C8_Witness ==
  /\ last.op = "addOrUpdateEntry"
  /\ last.id = ForeignId
  /\ budget = MaxOps - 1
  /\ Len(state.entries) = 1
  /\ state.entries[1].id = ForeignId

\* a step of the remove `op` on the sequence `key` keeps exactly the items
\* whose id is not the argument, in their order (all of them when no item has it)
RemoveStep(op, key) ==
  last'.op = op =>
    LET old == state[key]
        new == state'[key]
    IN /\ new = SelectSeq(old, LAMBDA e : e.id # last'.id)
       /\ last'.id \notin ItemIds(old) => new = old

\* C10: a remove with an absent id leaves the sequence as it is; with a present
\* id it drops exactly the items with that id and keeps the order of the rest.
C10_RemoveFilters == [][\A t \in RemoveTargets : RemoveStep(t[1], t[2])]_vars

\* C10 witness: removeEntry was just called with an id no entry has, and the
\* two entries are still there
C10_Witness ==
  /\ last.op = "removeEntry"
  /\ last.id \notin ItemIds(state.entries)
  /\ Len(state.entries) = 2

\* no two items of a sequence of s share an id
UniqueIds(s) == \A k \in ArrayKeys : Cardinality(ItemIds(s[k])) = Len(s[k])

\* a mutator step leaves the ids that stay in a sequence where they were, in
\* the same order
StableIds ==
  last'.op \in MutatorOps =>
    \A k \in ArrayKeys :
      IdsWithin(IdsOf(state'[k]), ItemIds(state[k]))
        = IdsWithin(IdsOf(state[k]), ItemIds(state'[k]))

\* C9: in every reachable FinanceState the ids of each sequence are pairwise
\* different, and no mutator changes the id of an item that stays.
C9_UniqueStableIds == [](UniqueIds(state)) /\ [][StableIds]_vars

\* C9 witness: a hydrated sequence (the stored entry) got a second entry
\* prepended under a generated id
C9_Witness ==
  /\ last.op = "addOrUpdateEntry"
  /\ last.id = NoId
  /\ Len(state.entries) = 2
  /\ state.entries[2].id = StoredEntry.id
  /\ state.entries[1].id = randomUUID(uuid - 1)

\* the field of the FinanceState a mutator call is aimed at
TargetOf(did) ==
  IF did.op = "upsertNumber" THEN did.key
  ELSE IF did.op \in {"addOrUpdateEntry", "removeEntry"} THEN "entries"
  ELSE IF did.op \in {"addOrUpdateHolding", "removeHolding"} THEN "savingsHoldings"
  ELSE "insurances"

\* C11: frame conditions. A mutator step gives the State Store a state with
\* the same fields in which every field but the mutator's target (the named
\* scalar; entries; savingsHoldings; insurances) has the value it had, and
\* upsertNumber leaves its argument in the named field.
C11_Frame ==
  [][last'.op \in MutatorOps =>
       /\ DOMAIN state' = DOMAIN state
       /\ \A k \in DOMAIN state \ {TargetOf(last')} : state'[k] = state[k]
       /\ last'.op = "upsertNumber" => state'[last'.key] = last'.value]_vars

\* C11 witness: spouseTotalSavings was just set in a state that holds an
\* entry and a holding, and both are still there
C11_Witness ==
  /\ last.op = "upsertNumber"
  /\ last.key = "spouseTotalSavings"
  /\ state.spouseTotalSavings = 5
  /\ state.myTotalSavings = 0
  /\ Len(state.entries) = 1
  /\ Len(state.savingsHoldings) = 1

\* every number of the FinanceState s is a finite number
FiniteNumbers(s) ==
  /\ \A k \in ScalarKeys : IsFinite(s[k])
  /\ \A i \in 1..Len(s.entries) : IsFinite(s.entries[i].savings) /\ IsFinite(s.entries[i].expenses)
  /\ \A i \in 1..Len(s.savingsHoldings) : IsFinite(s.savingsHoldings[i].amount)
  /\ \A i \in 1..Len(s.insurances) : IsFinite(s.insurances[i].limit)

\* C12 as stated: in every reachable FinanceState the four scalars, the
\* savings and expenses of every entry, the amount of every holding and the
\* limit of every insurance are finite numbers (a non-finite argument of a
\* mutator having been stored as 0).
C12_FiniteNumbers == FiniteNumbers(state)

\* the entry an addOrUpdateEntry step stored
StoredBy(did, entries) ==
  IF did.id = NoId THEN entries[1]
  ELSE entries[CHOOSE i \in 1..Len(entries) : entries[i].id = did.id]

\* the argument has the numeric property k with a finite value greater than 0
Positive(arg, k) == Has(arg, k) /\ IsFinite(arg[k]) /\ arg[k] > 0

\* C13 as stated: an addOrUpdateEntry called without savingsType stores
\* savingsType "MF" exactly when the savings passed is greater than 0 and no
\* savingsType otherwise (negative, zero, non-finite or missing savings); the
\* same for expenseType, "Misc" and expenses.
C13_TypeDefaulting ==
  [][last'.op = "addOrUpdateEntry" =>
       LET arg == last'.arg
           e == StoredBy(last', state'.entries)
       IN /\ ~Has(arg, "savingsType") =>
               e.savingsType = IF Positive(arg, "savings") THEN "MF" ELSE Undefined
          /\ ~Has(arg, "expenseType") =>
               e.expenseType = IF Positive(arg, "expenses") THEN "Misc" ELSE Undefined]_vars

----------------------------------------------------------------------------
(* Properties of the Persistence Adapter *)

LoadOps == {"loadExists", "loadMigrate", "loadNothing"}

\* two documents agree field for field, absent fields read as their defaults
DocEq(a, b) == Stringify(FromRemote(a)) = Stringify(FromRemote(b))

\* this step is the continuation of the getDoc l
Resumed(l) ==
  /\ BagIn(l, loads) /\ l.read
  /\ last'.op \in LoadOps
  /\ loads' = loads (-) SetToBag({l})

\* this step is the arrival of the setDoc w at the store
Completed(w) ==
  /\ BagIn(w, writes)
  /\ last'.op = "writeDone"
  /\ writes' = writes (-) SetToBag({w})

\* the setDoc calls this step made
NewWrites == {w \in BagToSet(writes') : CopiesIn(w, writes') > CopiesIn(w, writes)}
Issued(w) == CopiesIn(w, writes') - CopiesIn(w, writes)

\* C1 as stated: a state S that an anonymous session reached by a mutator and
\* persisted is the State Store again after a fresh start (mount, persistence
\* effect, the provider emitting no identity).
C1_ReloadRoundTrip ==
  (mounted /\ last.op = "authInit" /\ user = NoUser /\ saved # {})
    => DocEq(state, The(saved))

\* the continuation of a getDoc that found no document, while local storage
\* holds L: the State Store becomes L (absent fields defaulted) and one
\* setDoc that replaces the identity's document by L is made
MigrateStep ==
  \A l \in BagToSet(loads) :
    (Resumed(l) /\ l.snap = {} /\ Parsed(local) # {}) =>
      LET L == The(local)
      IN /\ \A k \in Fields : state'[k] = IF k \in DOMAIN L THEN L[k] ELSE defaultState[k]
         /\ Issued([uid |-> l.uid, data |-> L, merge |-> FALSE]) = 1

\* when a replacing setDoc arrives, the document is exactly what was sent
MigrationLands ==
  \A w \in BagToSet(writes) :
    (Completed(w) /\ ~w.merge) => remote'[w.uid] = {w.data}

\* while the State Store still holds what a migration for an identity put
\* there, the arrival of a write of that content at the identity's document
\* leaves the document equal to the State Store and to local storage
MigrationSettles ==
  \A w \in BagToSet(writes) :
    (Completed(w) /\ origin.op = "loadMigrate" /\ w.uid = origin.uid /\ DocEq(w.data, state)) =>
      /\ remote'[w.uid] # {}
      /\ DocEq(The(remote'[w.uid]), state)
      /\ synced => DocEq(The(remote'[w.uid]), The(local))

\* C2: migration on first sign-in. When the fetched document does not exist
\* and local storage holds L, the State Store adopts L and the document is
\* created equal to L; once the writes of the migration have arrived, with no
\* further mutation, the document equals the local state.
C2_Migration == [][MigrateStep /\ MigrationLands /\ MigrationSettles]_vars

\* C2 witness: data entered anonymously was migrated at the sign-in of A, all
\* writes have arrived and A's document equals the State Store and local storage
C2_Witness ==
  /\ last.op = "writeDone"
  /\ origin = From("loadMigrate", "A")
  /\ user = "A"
  /\ writes = EmptyBag
  /\ state # defaultState
  /\ local = {Stringify(state)}
  /\ remote["A"] # {}
  /\ DocEq(The(remote["A"]), state)

\* C3: no re-migration. When the fetched document exists, the State Store
\* becomes its content, absent fields defaulted (sequences to empty), and what
\* local storage holds is neither adopted nor written to a remote document.
C3_NoReMigration ==
  [][\A l \in BagToSet(loads) :
       (Resumed(l) /\ l.snap # {}) =>
         LET d == The(l.snap)
         IN /\ \A k \in Fields :
                 state'[k] = IF k \in DOMAIN d THEN d[k]
                             ELSE IF k \in ArrayKeys THEN <<>> ELSE 0
            /\ \A w \in NewWrites : w = EffectWrite(user', state')
            /\ (Parsed(local) # {} /\ ~DocEq(The(local), d)) =>
                 /\ ~DocEq(state', The(local))
                 /\ \A w \in NewWrites : ~DocEq(w.data, The(local))]_vars

\* C3 witness: A's document of the old schema was adopted with its sequences
\* empty while local storage holds (and, its write having failed, still
\* holds) a different content; the only write made mirrors the adopted state
C3_Witness ==
  /\ last.op = "loadExists"
  /\ origin = From("loadExists", "A")
  /\ state.myMonthlyIncome = OldDoc.myMonthlyIncome
  /\ state.entries = <<>> /\ state.savingsHoldings = <<>> /\ state.insurances = <<>>
  /\ ~synced /\ Parsed(local) # {} /\ ~DocEq(The(local), state)
  /\ writes = SetToBag({EffectWrite("A", state)})

\* C4: whenever the last run of the persistence effect wrote without failing,
\* local storage holds exactly the current State Store value.
C4_LocalTracksState == (mounted /\ synced) => local = {Stringify(state)}

\* C4 witness: after two entries were added one after the other, local
\* storage holds the state with both
C4_Witness ==
  /\ mounted /\ synced
  /\ budget = 0 /\ uuid = 2
  /\ origin.op = "addOrUpdateEntry"
  /\ Len(state.entries) = 2
  /\ local = {Stringify(state)}

\* C5 as stated: a State Store change made while an identity is signed in
\* makes exactly one merging setDoc of the full state to that identity's
\* document, and a step taken while no identity is signed in makes no setDoc.
C5_RemoteGatedOnIdentity ==
  [][/\ (last'.op \in MutatorOps \cup {"loadExists", "loadMigrate"} /\ user' # NoUser) =>
          Issued(EffectWrite(user', state')) = 1
     /\ user' = NoUser => NewWrites = {}]_vars

C17_WriteFailuresSwallowed ==
  [][/\ last'.op = "writeFail" =>
          /\ state' = state /\ local' = local /\ remote' = remote /\ loads' = loads
          /\ NewWrites = {}
     /\ (last'.op \in MutatorOps \cup {"loadExists", "loadMigrate"} /\ ~synced') =>
          /\ local' = local
          /\ user' # NoUser => Issued(EffectWrite(user', state')) = 1
          /\ last'.op = "upsertNumber" => state'[last'.key] = last'.value
          /\ \A l \in BagToSet(loads) :
               Resumed(l) => state' = LoadedState(l.snap, Parsed(local))]_vars

\* C17 witness: the write of the state loaded from A's document failed (the
\* document is as it was and the write is gone), and a mutator called after
\* that changed the State Store, local storage and issued its own write
C17_Witness ==
  /\ last.op \in MutatorOps
  /\ user = "A" /\ unread = {}
  /\ budget = 0
  /\ synced /\ local = {Stringify(state)}
  /\ state.myMonthlyIncome = OldDoc.myMonthlyIncome
  /\ remote["A"] = {OldDoc}
  /\ writes = SetToBag({EffectWrite("A", state)})

\* C18 as stated: a getDoc that fails at sign-in leaves the State Store as it
\* was and makes no setDoc, and while the read of an identity's existing
\* document has failed no write that arrives changes what the document holds.
C18_FailedReadDegrades ==
  [][/\ last'.op = "loadFail" => (state' = state /\ NewWrites = {})
     /\ \A w \in BagToSet(writes) :
          (Completed(w) /\ w.uid \in unread /\ remote[w.uid] # {}) =>
            DocEq(The(remote'[w.uid]), The(remote[w.uid]))]_vars

\* a getDoc for the signed-in identity has not resumed the callback yet
FetchPending == user # NoUser /\ \E l \in BagToSet(loads) : l.uid = user

EmitsIdentity == last'.op \in {"authInit", "signIn"} /\ user' # NoUser

C20_LoadFallback ==
  [][/\ (last'.op \in {"authInit", "signOut"} /\ user' = NoUser) =>
          /\ IF local # {} /\ The(local) # Corrupt
             THEN \A k \in Fields :
                    state'[k] = IF k \in DOMAIN The(local) THEN The(local)[k]
                                ELSE defaultState[k]
             ELSE state' = defaultState
          /\ NewWrites = {}
     /\ \A l \in BagToSet(loads) :
          (Resumed(l) /\ l.snap = {} /\ (local = {} \/ local = {Corrupt})) =>
            /\ state' = state /\ local' = local /\ remote' = remote
            /\ NewWrites = {}]_vars

\* C20 witness: the slot holds an unparseable content (the write of the
\* first render failed), the provider emitted no identity and the State
\* Store is defaultState
C20_Witness ==
  /\ last.op = "authInit"
  /\ user = NoUser
  /\ local = {Corrupt}
  /\ state = defaultState
  /\ writes = EmptyBag

----------------------------------------------------------------------------
(* Properties of the derived views *)

Names(out) == {out[i].name : i \in 1..Len(out)}
ValueOf(out, name) == out[CHOOSE i \in 1..Len(out) : out[i].name = name].value
NoDuplicates(out) == Cardinality(Names(out)) = Len(out)

\* the sum of the property k over the positions I of seq
RECURSIVE SumOver(_, _, _)
SumOver(seq, k, I) ==
  IF I = {} THEN 0
  ELSE LET i == CHOOSE j \in I : TRUE IN seq[i][k] + SumOver(seq, k, I \ {i})

\* the type an entry's expenses count under
ExpenseTypeOf(e) == IF Has(e, "expenseType") /\ e.expenseType # Undefined THEN e.expenseType ELSE "Misc"

\* `out` has one group for each type of the positions I of seq, with the sum
\* of the property k over the positions of that type
GroupsAre(out, seq, I, TypeAt(_), k) ==
  /\ NoDuplicates(out)
  /\ Names(out) = {TypeAt(seq[i]) : i \in I}
  /\ \A n \in Names(out) : ValueOf(out, n) = SumOver(seq, k, {i \in I : TypeAt(seq[i]) = n})

HoldingTypeOf(h) == h.type

\* C14 as stated: expenses-by-type and holdings-by-type have a group for a
\* type exactly when an item of that type exists, also when all items of the
\* type have the value 0 (the group's total is then 0).
C14_GroupPerType ==
  /\ view.fn = "ExpensesPie" =>
       GroupsAre(view.out, state.entries, 1..Len(state.entries), ExpenseTypeOf, "expenses")
  /\ view.fn = "HoldingsPie" =>
       GroupsAre(view.out, state.savingsHoldings, 1..Len(state.savingsHoldings),
                 HoldingTypeOf, "amount")

\* C14 amended: holdings-by-type has a group for a type exactly when a
\* holding of that type exists, with the sum of their amounts (0 when all are
\* 0); expenses-by-type has a group for a type exactly when an entry of that
\* type (no type counting as "Misc") has expenses greater than 0, with the
\* sum of those expenses, so no expenses group has the total 0.
C14_GroupPerContributor ==
  /\ view.fn = "ExpensesPie" =>
       /\ GroupsAre(view.out, state.entries,
                    {i \in 1..Len(state.entries) : state.entries[i].expenses > 0},
                    ExpenseTypeOf, "expenses")
       /\ \A i \in 1..Len(view.out) : view.out[i].value > 0
  /\ view.fn = "HoldingsPie" =>
       GroupsAre(view.out, state.savingsHoldings, 1..Len(state.savingsHoldings),
                 HoldingTypeOf, "amount")

\* C14 witness: of two entries the one of type "Rent" has expenses 0 and the
\* one without type has expenses 500: the only expenses group is "Misc"
C14_Witness ==
  /\ view.fn = "ExpensesPie"
  /\ Len(state.entries) = 2
  /\ state.entries[1].expenses = 0 /\ ExpenseTypeOf(state.entries[1]) = "Rent"
  /\ state.entries[2].expenses = 500 /\ ~Has(state.entries[2], "expenseType")
  /\ view.out = <<[name |-> "Misc", value |-> 500]>>

\* C15: the projected savings shown are (myTotalSavings + spouseTotalSavings)
\* + months * (sum of the savings of all entries): 0 for the empty state, and
\* 160000 for one entry with savings 10000, total savings 100000, 6 months.
C15_ProjectedSavingsOnly ==
  view.fn = "projectedSavingsOnly" =>
    LET es == state.entries
        total == state.myTotalSavings + state.spouseTotalSavings
    IN /\ view.out = total + projectionMonths * SumOver(es, "savings", 1..Len(es))
       /\ (es = <<>> /\ total = 0) => view.out = 0
       /\ (Len(es) = 1 /\ es[1].savings = 10000 /\ total = 100000 /\ projectionMonths = 6) =>
            view.out = 160000

\* C15 witness: the projection over 6 months of total savings 60000 + 40000
\* and one entry that saves 10000 a month is 160000
C15_Witness ==
  /\ view.fn = "projectedSavingsOnly"
  /\ projectionMonths = 6
  /\ state.myTotalSavings = 60000 /\ state.spouseTotalSavings = 40000
  /\ Len(state.entries) = 1 /\ state.entries[1].savings = 10000
  /\ view.out = 160000

----------------------------------------------------------------------------
(* Properties of the numeric parser *)

\* the characters of the text that are digits, "." or "-", in their order
Remainder(text) == SelectSeq(text, LAMBDA c : IsDigit(c) \/ c = "." \/ c = "-")

CountOf(c, str) == Cardinality({i \in 1..Len(str) : str[i] = c})

\* str is a decimal numeral: at most one point, a minus sign at the front
\* only, at least one digit
IsNumeral(str) ==
  /\ CountOf(".", str) <= 1
  /\ \A i \in 2..Len(str) : str[i] # "-"
  /\ \E i \in 1..Len(str) : IsDigit(str[i])

\* the integer the first n characters of the digit string ds denote
RECURSIVE DigitsValue(_, _)
DigitsValue(ds, n) == IF n = 0 THEN 0 ELSE DigitsValue(ds, n - 1) * 10 + DigitValue(ds[n])

\* the number a numeral denotes: its digits with the sign, and as many
\* fraction digits as there are characters behind the point
NumeralValue(str) ==
  LET ds == SelectSeq(str, IsDigit)
      behind == IF CountOf(".", str) = 0 THEN 0
                ELSE Len(str) - (CHOOSE i \in 1..Len(str) : str[i] = ".")
  IN Dec(IF str[1] = "-" THEN 0 - DigitsValue(ds, Len(ds)) ELSE DigitsValue(ds, Len(ds)),
         behind)

\* the two numbers have the same value
SameValue(a, b) == a.m * 10 ^ b.e = b.m * 10 ^ a.e

\* C16: parseNumber returns a finite number for every string: 0 when the
\* characters left after removing all but digits, "." and "-" are no numeral
\* ("abc", "1-2", "1.2.3"), and the value of the numeral otherwise
\* ("1,234.50 INR" gives 1234.50).
C16_ParserFinite ==
  view.fn = "parseNumber" =>
    /\ IsFinite(view.out.m)
    /\ ~IsNumeral(Remainder(view.text)) => view.out = Dec(0, 0)
    /\ IsNumeral(Remainder(view.text)) => view.out = NumeralValue(Remainder(view.text))
    /\ view.text \in {<<"a", "b", "c">>, <<"1", "-", "2">>, <<"1", ".", "2", ".", "3">>} =>
         view.out = Dec(0, 0)
    /\ view.text = <<"1", ",", "2", "3", "4", ".", "5", "0", " ", "I", "N", "R">> =>
         SameValue(view.out, Dec(12345, 1))

\* C16 witness: "1,234.50 INR" was read as 1234.50
C16_Witness ==
  /\ view.fn = "parseNumber"
  /\ view.text = <<"1", ",", "2", "3", "4", ".", "5", "0", " ", "I", "N", "R">>
  /\ view.out = Dec(123450, 2)

----------------------------------------------------------------------------
(* Properties of the projections *)

\* the type an entry's savings count under
SavingsTypeOf(e) ==
  IF Has(e, "savingsType") /\ e.savingsType # Undefined THEN e.savingsType ELSE "Unspecified"

RowTypes(rows) == {rows[i].type : i \in 1..Len(rows)}
NonIncreasing(rows) == \A i \in 1..Len(rows) - 1 : rows[i].projected >= rows[i + 1].projected

\* the positions of seq whose item has the type t
OfType(seq, TypeAt(_), t) == {i \in 1..Len(seq) : TypeAt(seq[i]) = t}

\* C21 as stated: the rows of projection-by-type are one for each type of a
\* holding and each savingsType that occurs in an entry (the row
\* "Unspecified" of the entries without one left aside); a row's projected
\* is the sum of the amounts of the holdings of its type plus months times
\* the sum of the savings of all entries of its type; the rows are ordered
\* by projected, non-increasing.
C21_RowsPerType ==
  view.fn = "ProjectionByType" =>
    LET hs == state.savingsHoldings
        es == state.entries
    IN /\ Cardinality(RowTypes(view.out)) = Len(view.out)
       /\ RowTypes(view.out) \ {"Unspecified"} =
            ({hs[i].type : i \in 1..Len(hs)}
               \cup {SavingsTypeOf(es[i]) : i \in 1..Len(es)}) \ {"Unspecified"}
       /\ \A i \in 1..Len(view.out) :
            view.out[i].projected =
              SumOver(hs, "amount", OfType(hs, HoldingTypeOf, view.out[i].type))
                + projectionMonths
                    * SumOver(es, "savings", OfType(es, SavingsTypeOf, view.out[i].type))
       /\ NonIncreasing(view.out)

\* C21 amended: the rows are one for each type of a holding and each type
\* (no savingsType counting as "Unspecified") of an entry whose savings are
\* greater than 0; a row's projected is the sum of the amounts of the
\* holdings of its type plus months times the sum of the savings of the
\* entries of its type that save more than 0; the rows are ordered by
\* projected, non-increasing.
C21_RowsPerContributor ==
  view.fn = "ProjectionByType" =>
    LET hs == state.savingsHoldings
        es == state.entries
        saving == {i \in 1..Len(es) : es[i].savings > 0}
    IN /\ Cardinality(RowTypes(view.out)) = Len(view.out)
       /\ RowTypes(view.out) =
            {hs[i].type : i \in 1..Len(hs)} \cup {SavingsTypeOf(es[i]) : i \in saving}
       /\ \A i \in 1..Len(view.out) :
            view.out[i].projected =
              SumOver(hs, "amount", OfType(hs, HoldingTypeOf, view.out[i].type))
                + projectionMonths
                    * SumOver(es, "savings",
                              saving \cap OfType(es, SavingsTypeOf, view.out[i].type))
       /\ NonIncreasing(view.out)

\* C21 witness: a "Gold" holding of 2, an entry of type "FD" that saves
\* nothing and an entry without type that saves 700: over 6 months the rows
\* are "Unspecified" with 4200 and "Gold" with 2, and there is no "FD" row
C21_Witness ==
  /\ view.fn = "ProjectionByType"
  /\ projectionMonths = 6
  /\ Len(state.savingsHoldings) = 1 /\ Len(state.entries) = 2
  /\ SavingsTypeOf(state.entries[1]) = "FD" /\ state.entries[1].savings = 0
  /\ Len(view.out) = 2
  /\ view.out[1].type = "Unspecified" /\ view.out[1].projected = 4200
  /\ view.out[2].type = "Gold" /\ view.out[2].projected = 2

\* C22: the series of the line chart has months + 1 points, point i (from 0)
\* is starting + i * monthlySavings, and with the combined total savings as
\* starting and the total planned monthly savings as monthlySavings its last
\* point is projectedSavingsOnly.
C22_SeriesPoints ==
  view.fn = "ProjectionLineChart" =>
    LET es == state.entries
        starting == state.myTotalSavings + state.spouseTotalSavings
        monthlySavings == SumOver(es, "savings", 1..Len(es))
    IN /\ Len(view.out) = projectionMonths + 1
       /\ \A i \in 0..projectionMonths : view.out[i + 1] = starting + i * monthlySavings
       /\ view.out[Len(view.out)] = projectedSavingsOnly(state, projectionMonths)

\* C22 witness: from 100000 with 10000 saved a month the series over 6
\* months has 7 points, from 100000 to 160000
C22_Witness ==
  /\ view.fn = "ProjectionLineChart"
  /\ projectionMonths = 6
  /\ Len(view.out) = 7
  /\ view.out[1] = 100000 /\ view.out[2] = 110000 /\ view.out[7] = 160000

----------------------------------------------------------------------------
(* Properties of the identities *)

\* the identities whose data a setDoc call made by this step carries: the
\* effect writes the new State Store value, the migration what the slot held
Carries(w) == IF w.merge THEN owners'.state ELSE owners.local

\* C23 as stated: a setDoc to the document of an identity only carries data
\* that was loaded from that identity's document, entered while that
\* identity was signed in, or entered while nobody was signed in; data loaded
\* from or entered under another identity is never written to it.
C23_Isolation ==
  [][\A w \in NewWrites : Carries(w) \subseteq {w.uid}]_vars

\* C24 as stated: a load that completes after the provider has emitted
\* another auth state does not win: once no callback is pending, a State
\* Store value that a load completion set was loaded for the identity that
\* is signed in now. (An auth state that follows a completed load either
\* signs out, which sets the State Store itself, or needs a sign-out first:
\* a value set by a load for another identity than the current one was set
\* by a completion the later auth state overtook.)
C24_StaleLoadsLose ==
  (mounted /\ emitted /\ loads = EmptyBag /\ origin.op \in {"loadExists", "loadMigrate"}) =>
    origin.uid = user

====
